---- MODULE Spec2Model ----
(***************************************************************************)
(* ParallelMatchingEngine<VFState> (include/parallel/                      *)
(* ParallelMatchingEngine.hpp): a fixed pool of worker threads exploring   *)
(* a tree of VFState objects through one mutex-protected global stack.     *)
(*                                                                         *)
(* The VFState contract (IsGoal, IsDead, NextPair, IsFeasiblePair, copy +  *)
(* AddPair, GetCoreSet) is external to the engine.  A VFState is modelled  *)
(* by the node of the search tree it stands for; the tree is chosen in     *)
(* Init.  Thread 0 is the thread that calls FindAllMatchings; the worker   *)
(* in pool slot i (Run(i)) is thread i + 1.                                *)
(***************************************************************************)
EXTENDS Integers, Naturals, Sequences, FiniteSets, TLC

\* Largest worker count given to the constructor.
MaxThreads == 2

\* VFState* s = NULL (line 95), VFState* res = NULL (line 154),
\* nodeID_t n1 = NULL_NODE (line 131): "no state" / "cursor at start".
NULL == 0

\* The thread that calls FindAllMatchings.
Caller == 0

\* The state passed to FindAllMatchings(VFState& s).
Root == 1

VARIABLES
    tree,               \* the VFState contract: the search tree
    np,                 \* constructor argument numThreads (unsigned short)
    storeSolutions,     \* MatchingEngine::storeSolutions
    visit,              \* TRUE iff a MatchingVisitor is configured
    statesMutex,        \* <<>> free, <<t>> held by thread t
    solutionsMutex,     \* <<>> free, <<t>> held by thread t
    solCount,           \* std::atomic<uint32_t>
    activeWorkerCount,  \* std::atomic<int16_t>
    globalStateStack,   \* std::stack<VFState*>, top is the last element
    solutions,          \* MatchingEngine::solutions
    pool,               \* std::vector<std::thread>: slot -> "empty"/"running"/"joined"
    idx,                \* loop index of StartPool (i), then of the join loop
    retval,             \* <<>> until FindAllMatchings returns, then <<value>>
    pc,                 \* thread -> position in the code
    s,                  \* thread -> ProcessState's / Run's s
    res,                \* thread -> GetState's res
    s1,                 \* thread -> ProcessState's s1 (child not yet pushed)
    cursor,             \* thread -> index of the pair NextPair returned last
    ret,                \* thread -> value returned by the last ProcessState
    gh                  \* history of the run (counters per state), see GhostInit

vars == <<tree, np, storeSolutions, visit, statesMutex, solutionsMutex,
          solCount, activeWorkerCount, globalStateStack, solutions, pool,
          idx, retval, pc, s, res, s1, cursor, ret, gh>>

config == <<tree, np, storeSolutions, visit>>

Threads == 0 .. MaxThreads
Workers == 1 .. MaxThreads

----------------------------------------------------------------------------
(* The VFState contract.  A tree is a record                               *)
(*   goal  : the nodes for which IsGoal() is true                          *)
(*   dead  : the nodes for which IsDead() is true                          *)
(*   pairs : node -> the sequence of candidate pairs NextPair enumerates;  *)
(*           an entry 0 is a pair IsFeasiblePair rejects, an entry c > 0   *)
(*           is a feasible pair, and c is the state copy + AddPair makes.  *)

Trees ==
    { \* dead root (its candidate pairs are never enumerated)
      [goal |-> {}, dead |-> {1}, pairs |-> <<(<<2>>), <<>>>>],
      \* goal root that also has candidate pairs
      [goal |-> {1}, dead |-> {}, pairs |-> <<(<<2>>), <<>>>>],
      \* no feasible pair at the root
      [goal |-> {}, dead |-> {}, pairs |-> <<(<<0, 0>>)>>],
      \* two goals at different depths, one infeasible pair
      [goal |-> {2, 4}, dead |-> {}, pairs |-> <<(<<2, 0, 3>>), <<>>, (<<4>>), <<>>>>],
      \* a goal that is also dead, a dead branch, a leaf that is neither
      [goal |-> {4}, dead |-> {3, 4}, pairs |-> <<(<<2, 3>>), (<<4, 5>>), (<<6>>), <<>>, <<>>, <<>>>>],
      \* a goal with candidate pairs below it, and a chain of depth three
      [goal |-> {2, 5}, dead |-> {}, pairs |-> <<(<<2, 3>>), (<<6>>), (<<4>>), (<<5>>), <<>>, <<>>>>]
    }

Nodes(t) == DOMAIN t.pairs

IsGoal(n) == n \in tree.goal
IsDead(n) == n \in tree.dead

\* NextPair(&n1, &n2, n1, n2): the cursor after pair k; FALSE when exhausted.
NextPair(n, k) == k + 1 <= Len(tree.pairs[n])

IsFeasiblePair(n, k) == tree.pairs[n][k] # 0

\* new VFState(*s) followed by AddPair(n1, n2): the child state.
NewChild(n, k) == tree.pairs[n][k]

\* s->GetCoreSet(sol): the snapshot of the state's correspondence.
GetCoreSet(n) == n

----------------------------------------------------------------------------
(* Integer widths.                                                         *)

\* int16_t arithmetic of activeWorkerCount.
Int16(x) == ((x + 32768) % 65536) - 32768

\* The member int16_t numThreads initialised from the unsigned short argument.
numThreads == Int16(np)

\* pool(numThreads) in the initializer list names the constructor argument.
PoolSize == np

\* i < numThreads (line 183) with size_t i: the int16_t member is converted
\* to size_t, so a negative member compares as 2^64 - |numThreads|, above
\* every index the loop reaches.
StartPool_Less(i) == IF numThreads < 0 THEN TRUE ELSE i < numThreads

\* GetThreadCount(), lines 82-84: pool.size().
GetThreadCount == PoolSize

\* GetSolutionsCount(), line 64: (size_t) solCount.
GetSolutionsCount == solCount

\* GetRemainingStates(), lines 88-91: the size of the frontier.
GetRemainingStates == Len(globalStateStack)

----------------------------------------------------------------------------
(* History of a run, per state (node): how often it was allocated, pushed, *)
(* popped, given to ProcessState (by any thread, and by the calling        *)
(* thread), returned from ProcessState, deleted, given to the visitor;     *)
(* cls: per thread, the goal its running ProcessState call has classified; *)
(* visitFalse: 1 once a visitor call has returned false; order: the states *)
(* pushed and not yet popped, in the order their pushes took effect.       *)

GhostInit(t) ==
    [alloc |-> [n \in Nodes(t) |-> 0], push  |-> [n \in Nodes(t) |-> 0],
     pop   |-> [n \in Nodes(t) |-> 0], proc  |-> [n \in Nodes(t) |-> 0],
     done  |-> [n \in Nodes(t) |-> 0], del   |-> [n \in Nodes(t) |-> 0],
     visit |-> [n \in Nodes(t) |-> 0],
     byCaller |-> [n \in Nodes(t) |-> 0],
     cls |-> [u \in Threads |-> NULL],
     visitFalse |-> 0,
     order |-> <<>>]

Init ==
    /\ tree \in Trees
    /\ np \in 1 .. MaxThreads
    /\ storeSolutions \in BOOLEAN
    /\ visit \in BOOLEAN
    /\ statesMutex = <<>>
    /\ solutionsMutex = <<>>
    /\ solCount = 0
    /\ activeWorkerCount = 0
    /\ globalStateStack = <<>>
    /\ solutions = <<>>
    /\ pool = [i \in 0 .. PoolSize - 1 |-> "empty"]
    /\ idx = 0
    /\ retval = <<>>
    /\ pc = [t \in Threads |-> IF t = Caller THEN "call" ELSE "unborn"]
    /\ s = [t \in Threads |-> NULL]
    /\ res = [t \in Threads |-> NULL]
    /\ s1 = [t \in Threads |-> NULL]
    /\ cursor = [t \in Threads |-> NULL]
    /\ ret = [t \in Threads |-> FALSE]
    /\ gh = GhostInit(tree)

----------------------------------------------------------------------------
(* ProcessState(VFState *s), lines 108-143, run by thread t on s[t].       *)

\* Where thread t continues when ProcessState returns: the caller goes on
\* to StartPool (line 69), a worker to "delete s" (line 101).
AfterProcessState(t) == IF t = Caller THEN "start_pool" ELSE "run_delete"

\* return of ProcessState with value b; the locals n1, n2 end with it.
Return(t, b) ==
    /\ ret' = [ret EXCEPT ![t] = b]
    /\ cursor' = [cursor EXCEPT ![t] = NULL]
    /\ pc' = [pc EXCEPT ![t] = AfterProcessState(t)]

\* The history after thread t has entered ProcessState(s[t]).
Entered(t) ==
    [gh EXCEPT !.proc[s[t]] = @ + 1,
               !.byCaller[s[t]] = IF t = Caller THEN @ + 1 ELSE @]

\* The history after a push / a pop of state n has taken effect.
Pushed(n) == [gh EXCEPT !.push[n] = @ + 1, !.order = Append(@, n)]
Popped(n) ==
    [gh EXCEPT !.pop[n] = @ + 1, !.order = SelectSeq(@, LAMBDA x : x # n)]

\* Variant of FindAllMatchings_Call: the root is seeded through the frontier
\* (PutState(&s)) instead of being processed by the caller.
FindAllMatchings_Call_PushRoot ==
    /\ pc[Caller] = "call"
    /\ globalStateStack' = Append(globalStateStack, Root)
    /\ gh' = Pushed(Root)
    /\ pc' = [pc EXCEPT ![Caller] = "start_pool"]
    /\ UNCHANGED <<config, statesMutex, solutionsMutex, solCount,
                   activeWorkerCount, solutions, pool, idx, retval, s, res,
                   s1, cursor, ret>>

\* FindAllMatchings(VFState& s) is entered: ProcessState(&s), line 68.
FindAllMatchings_Call ==
    /\ pc[Caller] = "call"
    /\ s' = [s EXCEPT ![Caller] = Root]
    /\ pc' = [pc EXCEPT ![Caller] = "ps_classify"]
    /\ UNCHANGED <<config, statesMutex, solutionsMutex, solCount,
                   activeWorkerCount, globalStateStack, solutions, pool, idx,
                   retval, res, s1, cursor, ret, gh>>

\* Variant of PS_Classify: the IsDead test is missing.
PS_Classify_NoDeadTest(t) ==
    /\ pc[t] = "ps_classify"
    /\ IF IsGoal(s[t])
         THEN /\ pc' = [pc EXCEPT ![t] = "ps_count"]
              /\ gh' = [Entered(t) EXCEPT !.cls[t] = s[t]]
         ELSE /\ pc' = [pc EXCEPT ![t] = "ps_next"]
              /\ gh' = Entered(t)
    /\ UNCHANGED <<config, statesMutex, solutionsMutex, solCount,
                   activeWorkerCount, globalStateStack, solutions, pool, idx,
                   retval, s, res, s1, cursor, ret>>

\* Variant of PS_Classify: IsDead is tested before IsGoal.
PS_Classify_DeadFirst(t) ==
    /\ pc[t] = "ps_classify"
    /\ IF IsDead(s[t])
         THEN /\ Return(t, FALSE)
              /\ gh' = [Entered(t) EXCEPT !.done[s[t]] = @ + 1]
         ELSE IF IsGoal(s[t])
         THEN /\ pc' = [pc EXCEPT ![t] = "ps_count"]
              /\ gh' = [Entered(t) EXCEPT !.cls[t] = s[t]]
              /\ UNCHANGED <<ret, cursor>>
         ELSE /\ pc' = [pc EXCEPT ![t] = "ps_next"]
              /\ gh' = Entered(t)
              /\ UNCHANGED <<ret, cursor>>
    /\ UNCHANGED <<config, statesMutex, solutionsMutex, solCount,
                   activeWorkerCount, globalStateStack, solutions, pool, idx,
                   retval, s, res, s1>>

\* Lines 110, 128-131: IsGoal first, then IsDead (return false), else the
\* cursor starts at NULL_NODE.
PS_Classify(t) ==
    /\ pc[t] = "ps_classify"
    /\ IF IsGoal(s[t])
         THEN /\ pc' = [pc EXCEPT ![t] = "ps_count"]
              /\ gh' = [Entered(t) EXCEPT !.cls[t] = s[t]]
              /\ UNCHANGED <<ret, cursor>>
         ELSE IF IsDead(s[t])
         THEN /\ Return(t, FALSE)
              /\ gh' = [Entered(t) EXCEPT !.done[s[t]] = @ + 1]
         ELSE /\ pc' = [pc EXCEPT ![t] = "ps_next"]
              /\ gh' = Entered(t)
              /\ UNCHANGED <<ret, cursor>>
    /\ UNCHANGED <<config, statesMutex, solutionsMutex, solCount,
                   activeWorkerCount, globalStateStack, solutions, pool, idx,
                   retval, s, res, s1>>

\* Variant of PS_Count: the test of storeSolutions is inverted.
PS_Count_StoreInverted(t) ==
    /\ pc[t] = "ps_count"
    /\ solCount' = solCount + 1
    /\ pc' = [pc EXCEPT ![t] = IF ~storeSolutions THEN "ps_sol_lock"
                                                  ELSE "ps_visit"]
    /\ UNCHANGED <<config, statesMutex, solutionsMutex, activeWorkerCount,
                   globalStateStack, solutions, pool, idx, retval, s, res,
                   s1, cursor, ret, gh>>

\* Variant of PS_Count: solCount is a plain integer, so of two increments
\* that overlap the first is overwritten by the second.
PS_Count_LostUpdate(t) ==
    /\ pc[t] = "ps_count"
    /\ solCount' = IF \E u \in Threads \ {t} : pc[u] = "ps_count"
                     THEN solCount ELSE solCount + 1
    /\ pc' = [pc EXCEPT ![t] = IF storeSolutions THEN "ps_sol_lock"
                                                 ELSE "ps_visit"]
    /\ UNCHANGED <<config, statesMutex, solutionsMutex, activeWorkerCount,
                   globalStateStack, solutions, pool, idx, retval, s, res,
                   s1, cursor, ret, gh>>

\* Line 113: solCount++ on the atomic counter (one read-modify-write; the
\* uint32_t wraps at 2^32, which no tree of the model comes near); line 114
\* tests storeSolutions.
PS_Count(t) ==
    /\ pc[t] = "ps_count"
    /\ solCount' = solCount + 1
    /\ pc' = [pc EXCEPT ![t] = IF storeSolutions THEN "ps_sol_lock"
                                                 ELSE "ps_visit"]
    /\ UNCHANGED <<config, statesMutex, solutionsMutex, activeWorkerCount,
                   globalStateStack, solutions, pool, idx, retval, s, res,
                   s1, cursor, ret, gh>>

\* Variant of PS_SolLock: the lock_guard is missing, the log is written
\* without solutionsMutex.
PS_SolLock_NoGuard(t) ==
    /\ pc[t] = "ps_sol_lock"
    /\ pc' = [pc EXCEPT ![t] = "ps_sol_push"]
    /\ UNCHANGED <<config, statesMutex, solutionsMutex, solCount,
                   activeWorkerCount, globalStateStack, solutions, pool, idx,
                   retval, s, res, s1, cursor, ret, gh>>

\* Line 116: lock_guard on solutionsMutex.
PS_SolLock(t) ==
    /\ pc[t] = "ps_sol_lock"
    /\ solutionsMutex = <<>>
    /\ solutionsMutex' = <<t>>
    /\ pc' = [pc EXCEPT ![t] = "ps_sol_push"]
    /\ UNCHANGED <<config, statesMutex, solCount, activeWorkerCount,
                   globalStateStack, solutions, pool, idx, retval, s, res,
                   s1, cursor, ret, gh>>

\* Variant of PS_SolPush: the guard's scope does not end at line 120, so
\* solutionsMutex is still held when the visitor is called.
PS_SolPush_GuardOutlives(t) ==
    /\ pc[t] = "ps_sol_push"
    /\ solutions' = Append(solutions, GetCoreSet(s[t]))
    /\ pc' = [pc EXCEPT ![t] = "ps_visit"]
    /\ UNCHANGED <<config, statesMutex, solutionsMutex, solCount,
                   activeWorkerCount, globalStateStack, pool, idx, retval, s,
                   res, s1, cursor, ret, gh>>

\* Lines 117-120: GetCoreSet, push_back, and the guard's release.
PS_SolPush(t) ==
    /\ pc[t] = "ps_sol_push"
    /\ solutions' = Append(solutions, GetCoreSet(s[t]))
    /\ solutionsMutex' = <<>>
    /\ pc' = [pc EXCEPT ![t] = "ps_visit"]
    /\ UNCHANGED <<config, statesMutex, solCount, activeWorkerCount,
                   globalStateStack, pool, idx, retval, s, res, s1, cursor,
                   ret, gh>>

\* Lines 121-125: return (*visit)(*s) when a visitor is set, else true.
\* The visitor is external: its result is any boolean.
PS_Visit(t) ==
    /\ pc[t] = "ps_visit"
    /\ IF visit
         THEN \E b \in BOOLEAN :
                /\ Return(t, b)
                /\ gh' = [gh EXCEPT !.visit[s[t]] = @ + 1,
                                    !.cls[t] = NULL,
                                    !.visitFalse = IF b THEN @ ELSE 1,
                                    !.done[s[t]] = @ + 1]
         ELSE /\ Return(t, TRUE)
              /\ gh' = [gh EXCEPT !.cls[t] = NULL, !.done[s[t]] = @ + 1]
    /\ UNCHANGED <<config, statesMutex, solutionsMutex, solCount,
                   activeWorkerCount, globalStateStack, solutions, pool, idx,
                   retval, s, res, s1>>

\* Variant of PS_NextPair: an infeasible pair ends the loop (break) instead
\* of moving on to the next pair.
PS_NextPair_BreakOnInfeasible(t) ==
    /\ pc[t] = "ps_next"
    /\ IF ~NextPair(s[t], cursor[t])
         THEN /\ Return(t, FALSE)
              /\ gh' = [gh EXCEPT !.done[s[t]] = @ + 1]
              /\ UNCHANGED s1
         ELSE IF IsFeasiblePair(s[t], cursor[t] + 1)
         THEN /\ cursor' = [cursor EXCEPT ![t] = @ + 1]
              /\ s1' = [s1 EXCEPT ![t] = NewChild(s[t], cursor[t] + 1)]
              /\ gh' = [gh EXCEPT
                          !.alloc[NewChild(s[t], cursor[t] + 1)] = @ + 1]
              /\ pc' = [pc EXCEPT ![t] = "ps_put_lock"]
              /\ UNCHANGED ret
         ELSE /\ Return(t, FALSE)
              /\ gh' = [gh EXCEPT !.done[s[t]] = @ + 1]
              /\ UNCHANGED s1
    /\ UNCHANGED <<config, statesMutex, solutionsMutex, solCount,
                   activeWorkerCount, globalStateStack, solutions, pool, idx,
                   retval, s, res>>

\* Lines 132-137 and 141: one turn of the while loop up to PutState, or the
\* return false that follows the loop.
PS_NextPair(t) ==
    /\ pc[t] = "ps_next"
    /\ IF ~NextPair(s[t], cursor[t])
         THEN /\ Return(t, FALSE)
              /\ gh' = [gh EXCEPT !.done[s[t]] = @ + 1]
              /\ UNCHANGED s1
         ELSE /\ cursor' = [cursor EXCEPT ![t] = @ + 1]
              /\ UNCHANGED ret
              /\ IF IsFeasiblePair(s[t], cursor[t] + 1)
                   THEN /\ s1' = [s1 EXCEPT ![t] = NewChild(s[t], cursor[t] + 1)]
                        /\ gh' = [gh EXCEPT
                                    !.alloc[NewChild(s[t], cursor[t] + 1)] = @ + 1]
                        /\ pc' = [pc EXCEPT ![t] = "ps_put_lock"]
                   ELSE UNCHANGED <<s1, gh, pc>>
    /\ UNCHANGED <<config, statesMutex, solutionsMutex, solCount,
                   activeWorkerCount, globalStateStack, solutions, pool, idx,
                   retval, s, res>>

\* PutState, line 146: lock_guard on statesMutex.
PutState_Lock(t) ==
    /\ pc[t] = "ps_put_lock"
    /\ statesMutex = <<>>
    /\ statesMutex' = <<t>>
    /\ pc' = [pc EXCEPT ![t] = "ps_put_push"]
    /\ UNCHANGED <<config, solutionsMutex, solCount, activeWorkerCount,
                   globalStateStack, solutions, pool, idx, retval, s, res, s1,
                   cursor, ret, gh>>

\* PutState, lines 147-148: push and the guard's release; back to line 132.
PutState_Push(t) ==
    /\ pc[t] = "ps_put_push"
    /\ globalStateStack' = Append(globalStateStack, s1[t])
    /\ statesMutex' = <<>>
    /\ gh' = Pushed(s1[t])
    /\ s1' = [s1 EXCEPT ![t] = NULL]
    /\ pc' = [pc EXCEPT ![t] = "ps_next"]
    /\ UNCHANGED <<config, solutionsMutex, solCount, activeWorkerCount,
                   solutions, pool, idx, retval, s, res, cursor, ret>>

----------------------------------------------------------------------------
(* GetState(), lines 152-163, and Run(thread_id), lines 93-106.            *)

\* Line 155: unique_lock on statesMutex.
GetState_Lock(t) ==
    /\ pc[t] = "gs_lock"
    /\ statesMutex = <<>>
    /\ statesMutex' = <<t>>
    /\ pc' = [pc EXCEPT ![t] = "gs_pop"]
    /\ UNCHANGED <<config, solutionsMutex, solCount, activeWorkerCount,
                   globalStateStack, solutions, pool, idx, retval, s, res, s1,
                   cursor, ret, gh>>

\* Variant of GetState_Pop: activeWorkerCount++ stands after the if, so it
\* is reached on an empty stack too.
GetState_Pop_IncAlways(t) ==
    /\ pc[t] = "gs_pop"
    /\ IF Len(globalStateStack) # 0
         THEN /\ res' = [res EXCEPT ![t] = globalStateStack[Len(globalStateStack)]]
              /\ globalStateStack' =
                     SubSeq(globalStateStack, 1, Len(globalStateStack) - 1)
              /\ gh' = Popped(globalStateStack[Len(globalStateStack)])
         ELSE UNCHANGED <<res, globalStateStack, gh>>
    /\ pc' = [pc EXCEPT ![t] = "gs_inc"]
    /\ UNCHANGED <<config, statesMutex, solutionsMutex, solCount,
                   activeWorkerCount, solutions, pool, idx, retval, s, s1,
                   cursor, ret>>

\* Variant of GetState_Pop: the container is a queue, so the state taken
\* is the one at its front.
GetState_Pop_Fifo(t) ==
    /\ pc[t] = "gs_pop"
    /\ IF Len(globalStateStack) # 0
         THEN /\ res' = [res EXCEPT ![t] = Head(globalStateStack)]
              /\ globalStateStack' = Tail(globalStateStack)
              /\ gh' = Popped(Head(globalStateStack))
              /\ pc' = [pc EXCEPT ![t] = "gs_inc"]
         ELSE /\ pc' = [pc EXCEPT ![t] = "gs_unlock"]
              /\ UNCHANGED <<res, globalStateStack, gh>>
    /\ UNCHANGED <<config, statesMutex, solutionsMutex, solCount,
                   activeWorkerCount, solutions, pool, idx, retval, s, s1,
                   cursor, ret>>

GetState_Pop_OffByOne(t) ==
    /\ pc[t] = "gs_pop"
    /\ IF Len(globalStateStack) > 1
         THEN /\ res' = [res EXCEPT ![t] = globalStateStack[Len(globalStateStack)]]
              /\ globalStateStack' =
                     SubSeq(globalStateStack, 1, Len(globalStateStack) - 1)
              /\ gh' = Popped(globalStateStack[Len(globalStateStack)])
              /\ pc' = [pc EXCEPT ![t] = "gs_inc"]
         ELSE /\ pc' = [pc EXCEPT ![t] = "gs_unlock"]
              /\ UNCHANGED <<res, globalStateStack, gh>>
    /\ UNCHANGED <<config, statesMutex, solutionsMutex, solCount,
                   activeWorkerCount, solutions, pool, idx, retval, s, s1,
                   cursor, ret>>

\* Variant of GetState_Pop: top() without pop().
GetState_Pop_TopOnly(t) ==
    /\ pc[t] = "gs_pop"
    /\ IF Len(globalStateStack) # 0
         THEN /\ res' = [res EXCEPT ![t] = globalStateStack[Len(globalStateStack)]]
              /\ gh' = Popped(globalStateStack[Len(globalStateStack)])
              /\ pc' = [pc EXCEPT ![t] = "gs_inc"]
         ELSE /\ pc' = [pc EXCEPT ![t] = "gs_unlock"]
              /\ UNCHANGED <<res, gh>>
    /\ UNCHANGED <<config, statesMutex, solutionsMutex, solCount,
                   activeWorkerCount, globalStateStack, solutions, pool, idx,
                   retval, s, s1, cursor, ret>>

\* Lines 156-159: if the stack is not empty, res = top(); pop().
GetState_Pop(t) ==
    /\ pc[t] = "gs_pop"
    /\ IF Len(globalStateStack) # 0
         THEN /\ res' = [res EXCEPT ![t] = globalStateStack[Len(globalStateStack)]]
              /\ globalStateStack' =
                     SubSeq(globalStateStack, 1, Len(globalStateStack) - 1)
              /\ gh' = Popped(globalStateStack[Len(globalStateStack)])
              /\ pc' = [pc EXCEPT ![t] = "gs_inc"]
         ELSE /\ pc' = [pc EXCEPT ![t] = "gs_unlock"]
              /\ UNCHANGED <<res, globalStateStack, gh>>
    /\ UNCHANGED <<config, statesMutex, solutionsMutex, solCount,
                   activeWorkerCount, solutions, pool, idx, retval, s, s1,
                   cursor, ret>>

\* Line 160: activeWorkerCount++ inside the critical section.
GetState_Inc(t) ==
    /\ pc[t] = "gs_inc"
    /\ activeWorkerCount' = Int16(activeWorkerCount + 1)
    /\ pc' = [pc EXCEPT ![t] = "gs_unlock"]
    /\ UNCHANGED <<config, statesMutex, solutionsMutex, solCount,
                   globalStateStack, solutions, pool, idx, retval, s, res, s1,
                   cursor, ret, gh>>

\* Lines 162 and 104: return res (the lock is released), s = GetState().
GetState_Return(t) ==
    /\ pc[t] = "gs_unlock"
    /\ statesMutex' = <<>>
    /\ s' = [s EXCEPT ![t] = res[t]]
    /\ res' = [res EXCEPT ![t] = NULL]
    /\ pc' = [pc EXCEPT ![t] = "run_while"]
    /\ UNCHANGED <<config, solutionsMutex, solCount, activeWorkerCount,
                   globalStateStack, solutions, pool, idx, retval, s1, cursor,
                   ret, gh>>

\* Variant of Run_While: activeWorkerCount-- comes before ProcessState(s).
Run_While_DecFirst(t) ==
    /\ pc[t] = "run_while"
    /\ pc' = [pc EXCEPT ![t] = IF s[t] # NULL THEN "ps_classify"
                               ELSE IF activeWorkerCount > 0 THEN "gs_lock"
                               ELSE "done"]
    /\ activeWorkerCount' = IF s[t] # NULL THEN Int16(activeWorkerCount - 1)
                            ELSE activeWorkerCount
    /\ UNCHANGED <<config, statesMutex, solutionsMutex, solCount,
                   globalStateStack, solutions, pool, idx, retval, s, res,
                   s1, cursor, ret, gh>>

\* Variant of Run_While: the loop condition is s || activeWorkerCount >= 0.
Run_While_NonNegative(t) ==
    /\ pc[t] = "run_while"
    /\ pc' = [pc EXCEPT ![t] = IF s[t] # NULL THEN "ps_classify"
                               ELSE IF activeWorkerCount >= 0 THEN "gs_lock"
                               ELSE "done"]
    /\ UNCHANGED <<config, statesMutex, solutionsMutex, solCount,
                   activeWorkerCount, globalStateStack, solutions, pool, idx,
                   retval, s, res, s1, cursor, ret, gh>>

\* Line 105, then lines 98-100: while(s || activeWorkerCount > 0); with a
\* state in hand the next turn calls ProcessState(s), without one it calls
\* GetState again; otherwise Run returns.
Run_While(t) ==
    /\ pc[t] = "run_while"
    /\ pc' = [pc EXCEPT ![t] = IF s[t] # NULL THEN "ps_classify"
                               ELSE IF activeWorkerCount > 0 THEN "gs_lock"
                               ELSE "done"]
    /\ UNCHANGED <<config, statesMutex, solutionsMutex, solCount,
                   activeWorkerCount, globalStateStack, solutions, pool, idx,
                   retval, s, res, s1, cursor, ret, gh>>

\* Variant of Run_Delete: a goal whose visitor returned false ends the
\* worker's loop.
Run_Delete_StopOnFalse(t) ==
    /\ pc[t] = "run_delete"
    /\ gh' = [gh EXCEPT !.del[s[t]] = @ + 1]
    /\ ret' = [ret EXCEPT ![t] = FALSE]
    /\ IF IsGoal(s[t]) /\ ~ret[t]
         THEN /\ activeWorkerCount' = Int16(activeWorkerCount - 1)
              /\ pc' = [pc EXCEPT ![t] = "done"]
         ELSE /\ pc' = [pc EXCEPT ![t] = "run_dec"]
              /\ UNCHANGED activeWorkerCount
    /\ UNCHANGED <<config, statesMutex, solutionsMutex, solCount,
                   globalStateStack, solutions, pool, idx, retval, s, res,
                   s1, cursor>>

\* Variant of Run_Delete: the state is not deleted.
Run_Delete_Leak(t) ==
    /\ pc[t] = "run_delete"
    /\ ret' = [ret EXCEPT ![t] = FALSE]
    /\ pc' = [pc EXCEPT ![t] = "run_dec"]
    /\ UNCHANGED <<config, statesMutex, solutionsMutex, solCount,
                   activeWorkerCount, globalStateStack, solutions, pool, idx,
                   retval, s, res, s1, cursor, gh>>

\* Lines 100-101: the value of ProcessState(s) is dropped; delete s.
Run_Delete(t) ==
    /\ pc[t] = "run_delete"
    /\ gh' = [gh EXCEPT !.del[s[t]] = @ + 1]
    /\ ret' = [ret EXCEPT ![t] = FALSE]
    /\ pc' = [pc EXCEPT ![t] = "run_dec"]
    /\ UNCHANGED <<config, statesMutex, solutionsMutex, solCount,
                   activeWorkerCount, globalStateStack, solutions, pool, idx,
                   retval, s, res, s1, cursor>>

\* Line 102: activeWorkerCount--; then line 104.
Run_Dec(t) ==
    /\ pc[t] = "run_dec"
    /\ activeWorkerCount' = Int16(activeWorkerCount - 1)
    /\ pc' = [pc EXCEPT ![t] = "gs_lock"]
    /\ UNCHANGED <<config, statesMutex, solutionsMutex, solCount,
                   globalStateStack, solutions, pool, idx, retval, s, res, s1,
                   cursor, ret, gh>>

----------------------------------------------------------------------------
(* StartPool(), lines 179-195, and the rest of FindAllMatchings, 69-79.    *)

\* Lines 183-185: one turn of the loop, pool[i] = std::thread(Run(i)); the
\* new thread starts Run with s = NULL, so its first step is GetState.
\* When the loop ends the caller goes on to the join loop (line 72).
\* The value of ProcessState(&s) (line 68) is dropped here.
\* pool[i] is defined only for i < pool.size(), which holds for every worker
\* count Init draws.  SetAffinity (lines 186-193) changes no state of the
\* engine and is left out.
StartPool_Spawn ==
    /\ pc[Caller] = "start_pool"
    /\ IF StartPool_Less(idx)
         THEN /\ idx \in DOMAIN pool
              /\ pool' = [pool EXCEPT ![idx] = "running"]
              /\ pc' = [pc EXCEPT ![idx + 1] = "gs_lock"]
              /\ idx' = idx + 1
         ELSE /\ pc' = [pc EXCEPT ![Caller] = "join"]
              /\ idx' = 0
              /\ UNCHANGED pool
    /\ ret' = [ret EXCEPT ![Caller] = FALSE]
    /\ UNCHANGED <<config, statesMutex, solutionsMutex, solCount,
                   activeWorkerCount, globalStateStack, solutions, retval, s,
                   res, s1, cursor, gh>>

\* Variant of Join: the loop does not wait for the thread (no th.join()).
Join_NoWait ==
    /\ pc[Caller] = "join"
    /\ idx < PoolSize
    /\ idx' = idx + 1
    /\ UNCHANGED <<config, statesMutex, solutionsMutex, solCount,
                   activeWorkerCount, globalStateStack, solutions, pool,
                   retval, pc, s, res, s1, cursor, ret, gh>>

\* Lines 72-76: for each thread of the pool, join it if it is joinable;
\* join blocks until the thread's Run has returned.
Join ==
    /\ pc[Caller] = "join"
    /\ idx < PoolSize
    /\ IF pool[idx] = "running"
         THEN /\ pc[idx + 1] = "done"
              /\ pool' = [pool EXCEPT ![idx] = "joined"]
         ELSE UNCHANGED pool
    /\ idx' = idx + 1
    /\ UNCHANGED <<config, statesMutex, solutionsMutex, solCount,
                   activeWorkerCount, globalStateStack, solutions, retval, pc,
                   s, res, s1, cursor, ret, gh>>

\* Line 79: return true.
FindAllMatchings_Return ==
    /\ pc[Caller] = "join"
    /\ idx >= PoolSize
    /\ retval' = <<TRUE>>
    /\ pc' = [pc EXCEPT ![Caller] = "returned"]
    /\ UNCHANGED <<config, statesMutex, solutionsMutex, solCount,
                   activeWorkerCount, globalStateStack, solutions, pool, idx,
                   s, res, s1, cursor, ret, gh>>

----------------------------------------------------------------------------
\* The steps of thread t that belong to ProcessState and PutState.
ProcessState(t) ==
    \/ PS_Classify(t)
    \/ PS_Count(t)
    \/ PS_SolLock(t)
    \/ PS_SolPush(t)
    \/ PS_Visit(t)
    \/ PS_NextPair(t)
    \/ PutState_Lock(t)
    \/ PutState_Push(t)

\* The steps of worker t that belong to Run and GetState.
Run(t) ==
    \/ GetState_Lock(t)
    \/ GetState_Pop(t)
    \/ GetState_Inc(t)
    \/ GetState_Return(t)
    \/ Run_While(t)
    \/ Run_Delete(t)
    \/ Run_Dec(t)

\* The steps of the calling thread outside ProcessState.
FindAllMatchings ==
    \/ FindAllMatchings_Call
    \/ StartPool_Spawn
    \/ Join
    \/ FindAllMatchings_Return

Next ==
    \/ FindAllMatchings
    \/ \E t \in Threads : ProcessState(t)
    \/ \E t \in Workers : Run(t)

\* Every step thread t can take.
ThreadStep(t) ==
    \/ ProcessState(t)
    \/ t \in Workers /\ Run(t)
    \/ t = Caller /\ FindAllMatchings

Spec == Init /\ [][Next]_vars

\* Fair scheduling: a thread that can take a step again and again takes
\* one (a thread waiting for a mutex gets it eventually).
FairSpec == Spec /\ \A t \in Threads : SF_vars(ThreadStep(t))

----------------------------------------------------------------------------
(* The constructor and StartPool over the whole range of the unsigned      *)
(* short argument.  Thousands of workers cannot be stepped one by one, so  *)
(* this specification follows the calling thread alone, on a root without  *)
(* feasible pairs, and keeps of the vector only its summary: pool is the   *)
(* record [inside, outside], the number of thread objects assigned to      *)
(* slots of the vector and the number assigned past its end.               *)

\* Worker counts at the edges of int16_t and of unsigned short.
PoolCounts == {1, 2, 32767, 32768, 65535}

\* How many assignments past the end of the vector a run is followed for.
MaxOutside == 2

PoolInit ==
    /\ tree = [goal |-> {}, dead |-> {}, pairs |-> <<(<<0, 0>>)>>]
    /\ np \in PoolCounts
    /\ storeSolutions = FALSE
    /\ visit = FALSE
    /\ statesMutex = <<>>
    /\ solutionsMutex = <<>>
    /\ solCount = 0
    /\ activeWorkerCount = 0
    /\ globalStateStack = <<>>
    /\ solutions = <<>>
    /\ pool = [inside |-> 0, outside |-> 0]
    /\ idx = 0
    /\ retval = <<>>
    /\ pc = [t \in Threads |-> IF t = Caller THEN "call" ELSE "unborn"]
    /\ s = [t \in Threads |-> NULL]
    /\ res = [t \in Threads |-> NULL]
    /\ s1 = [t \in Threads |-> NULL]
    /\ cursor = [t \in Threads |-> NULL]
    /\ ret = [t \in Threads |-> FALSE]
    /\ gh = GhostInit(tree)

\* Lines 183-185: one turn of the loop.  pool[i] with i < pool.size() is a
\* slot of the vector; with i >= pool.size() the assignment is outside the
\* vector, which is undefined behaviour.
Pool_Spawn ==
    /\ pc[Caller] = "start_pool"
    /\ StartPool_Less(idx)
    /\ IF idx < PoolSize
         THEN /\ pool' = [pool EXCEPT !.inside = @ + 1]
              /\ UNCHANGED pc
         ELSE /\ pool' = [pool EXCEPT !.outside = @ + 1]
              /\ pc' = [pc EXCEPT ![Caller] = "undefined"]
    /\ idx' = idx + 1
    /\ UNCHANGED <<config, statesMutex, solutionsMutex, solCount,
                   activeWorkerCount, globalStateStack, solutions, retval, s,
                   res, s1, cursor, ret, gh>>

\* After an assignment outside the vector anything may follow: the process
\* dies, or the loop goes on.
Pool_Undefined ==
    /\ pc[Caller] = "undefined"
    /\ \/ pc' = [pc EXCEPT ![Caller] = "crashed"]
       \/ /\ pool.outside < MaxOutside
          /\ pc' = [pc EXCEPT ![Caller] = "start_pool"]
    /\ UNCHANGED <<config, statesMutex, solutionsMutex, solCount,
                   activeWorkerCount, globalStateStack, solutions, pool, idx,
                   retval, s, res, s1, cursor, ret, gh>>

\* Line 183 with the condition false: StartPool returns to line 72.
Pool_End ==
    /\ pc[Caller] = "start_pool"
    /\ ~StartPool_Less(idx)
    /\ pc' = [pc EXCEPT ![Caller] = "join"]
    /\ UNCHANGED <<config, statesMutex, solutionsMutex, solCount,
                   activeWorkerCount, globalStateStack, solutions, pool, idx,
                   retval, s, res, s1, cursor, ret, gh>>

PoolNext ==
    \/ FindAllMatchings_Call
    \/ PS_Classify(Caller)
    \/ PS_NextPair(Caller)
    \/ Pool_Spawn
    \/ Pool_Undefined
    \/ Pool_End

PoolSpec == PoolInit /\ [][PoolNext]_vars

----------------------------------------------------------------------------
(* What the claims speak about, computed from the tree alone.              *)

RECURSIVE SumOver(_, _)
SumOver(f, S) ==
    IF S = {} THEN 0
    ELSE LET x == CHOOSE y \in S : TRUE IN f[x] + SumOver(f, S \ {x})

\* The feasible children of node n in tree t.
FeasibleChildren(t, n) ==
    {t.pairs[n][k] : k \in {j \in DOMAIN t.pairs[n] : t.pairs[n][j] # 0}}

\* The nodes of the expansion tree below and including n: a node that is a
\* goal or dead has no children, any other has one per feasible pair.
RECURSIVE Expansion(_, _)
Expansion(t, n) ==
    IF n \in t.goal \cup t.dead THEN {n}
    ELSE {n} \cup UNION {Expansion(t, c) : c \in FeasibleChildren(t, n)}

\* The goal states of the expansion tree.
ExpansionGoals(t) == Expansion(t, Root) \cap t.goal

Returned == pc[Caller] = "returned"

\* The workers StartPool has spawned so far.
Spawned == {t \in Workers : pc[t] # "unborn"}

\* How often state n occurs in the frontier.
InFrontier(n) ==
    Cardinality({i \in DOMAIN globalStateStack : globalStateStack[i] = n})

\* How many thread-local pointers (s, res, s1 of any thread) name state n.
HeldBy(n) ==
    Cardinality({t \in Threads : s[t] = n})
    + Cardinality({t \in Threads : res[t] = n})
    + Cardinality({t \in Threads : s1[t] = n})

\* A child state that has been allocated and not yet deleted.
Live(n) == n # Root /\ gh.alloc[n] > gh.del[n]

Children == Nodes(tree) \ {Root}

----------------------------------------------------------------------------
\* C1: after FindAllMatchings returns, GetSolutionsCount() equals the number
\* of goal states of the expansion tree, whatever the thread count and the
\* interleaving.
C1_CountIsGoalCount ==
    Returned => GetSolutionsCount = Cardinality(ExpansionGoals(tree))

\* A run with two workers has returned with two goals counted, none of
\* them the root.
C1_Witness ==
    /\ Returned
    /\ np >= 2
    /\ GetSolutionsCount = 2
    /\ Root \notin tree.goal

\* C3: when FindAllMatchings returns the frontier is empty and every child
\* state was allocated, pushed, popped, processed and deleted exactly once
\* (or never allocated at all); allocations equal destructions.
C3_DrainedExactlyOnce ==
    Returned =>
      /\ globalStateStack = <<>>
      /\ \A n \in Children :
            /\ gh.alloc[n] = (IF n \in Expansion(tree, Root) THEN 1 ELSE 0)
            /\ gh.push[n] = gh.alloc[n]
            /\ gh.pop[n] = gh.push[n]
            /\ gh.proc[n] = gh.pop[n]
            /\ gh.done[n] = gh.proc[n]
            /\ gh.del[n] = gh.alloc[n]
      /\ SumOver(gh.alloc, Children) = SumOver(gh.del, Children)
      /\ \A t \in Threads : s1[t] = NULL /\ res[t] = NULL

\* A run with two workers returned after four children were allocated and
\* deleted.
C3_Witness ==
    /\ Returned
    /\ np >= 2
    /\ SumOver(gh.del, Children) >= 4

\* C4: every live child state has exactly one owner, the frontier (once) or
\* one thread; no state is handed out by GetState twice; a deleted state is
\* not in the frontier.
C4_SingleOwner ==
    \A n \in Children :
        /\ Live(n) => InFrontier(n) + HeldBy(n) = 1
        /\ gh.pop[n] <= 1
        /\ gh.del[n] > 0 => InFrontier(n) = 0
        /\ gh.alloc[n] = 0 => InFrontier(n) + HeldBy(n) = 0

\* Two workers have each popped a state and hold it while a third state
\* waits in the frontier.
C4_Witness ==
    /\ \E t, u \in Workers :
          /\ t # u
          /\ pc[t] \in {"gs_inc", "gs_unlock"} /\ res[t] # NULL
          /\ pc[u] = "ps_next" /\ Live(s[u])
    /\ globalStateStack # <<>>

\* C5: the root is never pushed, popped or deleted; it is processed at most
\* once, by the calling thread only, and exactly once by the time
\* FindAllMatchings returns; no worker ever holds it.
C5_RootStaysWithCaller ==
    /\ gh.push[Root] = 0 /\ gh.pop[Root] = 0 /\ gh.del[Root] = 0
    /\ gh.alloc[Root] = 0
    /\ InFrontier(Root) = 0
    /\ \A t \in Workers : s[t] # Root /\ res[t] # Root /\ s1[t] # Root
    /\ gh.proc[Root] <= 1
    /\ gh.byCaller[Root] = gh.proc[Root]
    /\ pc[Caller] \in {"start_pool", "join", "returned"} =>
          gh.proc[Root] = 1 /\ gh.done[Root] = 1

\* The call returned after workers deleted children of the root.
C5_Witness ==
    /\ Returned
    /\ gh.done[Root] = 1
    /\ \E n \in Children : gh.del[n] = 1

\* How often the snapshot of state n occurs in the solution log.
InLog(n) ==
    Cardinality({i \in DOMAIN solutions : solutions[i] = GetCoreSet(n)})

\* Goal classifications begun (IsGoal found true) and completed
\* (ProcessState of a goal returned).
GoalsBegun == SumOver(gh.proc, Nodes(tree) \cap tree.goal)
GoalsCompleted == SumOver(gh.done, Nodes(tree) \cap tree.goal)

\* The states ProcessState has been called on.
Processed == {n \in Nodes(tree) : gh.proc[n] > 0}

C6_LogMatchesCount ==
    /\ storeSolutions /\ Returned =>
          /\ Len(solutions) = GetSolutionsCount
          /\ \A n \in Nodes(tree) :
                InLog(n) = (IF n \in tree.goal THEN gh.proc[n] ELSE 0)
    /\ ~storeSolutions => solutions = <<>>

\* With storeSolutions and two workers, the call returned with two
\* snapshots in the log, the deeper goal logged first.
C6_Witness ==
    /\ storeSolutions
    /\ Returned
    /\ np >= 2
    /\ Len(solutions) = 2
    /\ solutions[1] > solutions[2]

\* C7: at every moment GetSolutionsCount() is at least the number of goal
\* classifications completed and at most the number begun, and it never
\* decreases.
C7_CountConsistent ==
    /\ [](GoalsCompleted <= GetSolutionsCount /\ GetSolutionsCount <= GoalsBegun)
    /\ [][GetSolutionsCount' >= GetSolutionsCount]_vars

\* Mid-search, two workers have both incremented the counter for their
\* goals and neither ProcessState call has completed.
C7_Witness ==
    /\ ~Returned
    /\ GetSolutionsCount = 2
    /\ GoalsCompleted = 0
    /\ \E t, u \in Workers : t # u /\ IsGoal(s[t]) /\ IsGoal(s[u])
          /\ pc[t] \in {"ps_sol_lock", "ps_sol_push", "ps_visit"}
          /\ pc[u] \in {"ps_sol_lock", "ps_sol_push", "ps_visit"}

\* C8: FindAllMatchings has a return value only once it has returned, it
\* returns only after all numThreads workers have left Run, and the value
\* is true.
C8_ReturnsTrueAfterWorkers ==
    /\ retval # <<>> <=> Returned
    /\ Returned =>
          /\ Spawned = 1 .. np
          /\ \A t \in Spawned : pc[t] = "done"
          /\ \A i \in DOMAIN pool : pool[i] = "joined"
          /\ retval = <<TRUE>>

\* The call returned after a visitor returned false for a goal classified
\* by a worker.
C8_Witness ==
    /\ Returned
    /\ np >= 2
    /\ gh.visitFalse = 1
    /\ \E n \in Children : gh.visit[n] = 1

\* C9: a configured visitor is called once per goal classified, by the
\* thread whose ProcessState call classified it, and for no other state;
\* whatever it returns, at return the states processed are exactly the
\* expansion tree, the count is its number of goals and all workers have
\* left Run.
C9_VisitorOncePerGoal ==
    /\ [](/\ \A n \in Nodes(tree) :
               /\ gh.visit[n] <= gh.proc[n]
               /\ gh.visit[n] > 0 => visit /\ n \in tree.goal
               /\ visit /\ n \in tree.goal => gh.visit[n] = gh.done[n]
          /\ Returned =>
               /\ Processed = Expansion(tree, Root)
               /\ \A n \in Processed : gh.proc[n] = 1
               /\ GetSolutionsCount = Cardinality(Processed \cap tree.goal)
               /\ \A t \in Spawned : pc[t] = "done")
    /\ [][\A n \in Nodes(tree) :
            gh.visit'[n] # gh.visit[n] =>
               /\ gh.visit'[n] = gh.visit[n] + 1
               /\ \E t \in Threads :
                     /\ gh.cls[t] = n /\ s[t] = n
                     /\ pc[t] = "ps_visit" /\ pc'[t] = AfterProcessState(t)]_vars

\* The call returned after the visitor returned false and two goals were
\* visited.
C9_Witness ==
    /\ Returned
    /\ visit
    /\ gh.visitFalse = 1
    /\ \E n, m \in Children : n # m /\ gh.visit[n] = 1 /\ gh.visit[m] = 1

\* C10: when the root is dead and not a goal nothing is ever allocated,
\* pushed or popped, no worker ever holds a state, the counter stays 0 and
\* at return every worker has left Run.
C10_DeadRoot ==
    (Root \notin tree.goal /\ Root \in tree.dead) =>
      /\ globalStateStack = <<>>
      /\ \A n \in Nodes(tree) :
            gh.alloc[n] = 0 /\ gh.push[n] = 0 /\ gh.pop[n] = 0
      /\ \A t \in Workers : s[t] = NULL /\ res[t] = NULL
      /\ GetSolutionsCount = 0
      /\ activeWorkerCount = 0
      /\ Returned => \A t \in 1 .. np : pc[t] = "done"

\* A dead root, two workers, and the call has returned.
C10_Witness ==
    /\ Root \notin tree.goal /\ Root \in tree.dead
    /\ Returned
    /\ np >= 2
    /\ \A t \in 1 .. np : pc[t] = "done"

\* C11: for every worker count the constructor accepts, StartPool assigns
\* exactly numThreads threads, all to slots of the pool and none outside it,
\* and GetThreadCount() is that count.
C11_SpawnsExactlyNumThreads ==
    /\ pool.outside = 0
    /\ pool.inside <= np
    /\ pc[Caller] = "join" => pool.inside = np
    /\ GetThreadCount = np

\* Worker t holds a state: one it has popped and not yet deleted, or a
\* child it has allocated and not yet pushed.
Holds(t) ==
    \/ res[t] # NULL
    \/ s1[t] # NULL
    \/ s[t] # NULL /\ Live(s[t])

\* Work remains: a state waits in the frontier or some worker holds one.
WorkRemains ==
    globalStateStack # <<>> \/ \E t \in Workers : Holds(t)

\* C12: whenever some worker has left Run, the frontier is empty and no
\* worker holds a state (so nothing is pushed or popped after an exit).
C12_ExitOnlyWhenExhausted ==
    (\E t \in Workers : pc[t] = "done") => ~WorkRemains

\* C13: while work remains at least one of the numThreads workers has not
\* left Run.
C13_SomeWorkerStays ==
    WorkRemains => \E t \in 1 .. np : pc[t] # "done"

\* One worker has left Run while a state waits in the frontier and the
\* other worker is still running.
C13_Witness ==
    /\ \E t \in Workers : pc[t] = "done"
    /\ \E t \in 1 .. np : pc[t] \notin {"done", "unborn"}
    /\ globalStateStack # <<>>

\* The children ProcessState makes of state n of the expansion tree.
ExpansionChildren(n) ==
    IF n \in tree.goal \cup tree.dead THEN {} ELSE FeasibleChildren(tree, n)

\* C14: every step that lowers activeWorkerCount is the decrement of a
\* worker whose ProcessState call has returned and whose state is deleted,
\* and every child of that state has been pushed by then (it is in the
\* frontier or was popped already).
C14_DecrementAfterChildren ==
    [][activeWorkerCount' < activeWorkerCount =>
         \E t \in Workers :
            /\ pc[t] = "run_dec" /\ pc'[t] = "gs_lock"
            /\ activeWorkerCount' = activeWorkerCount - 1
            /\ gh.done[s[t]] = 1
            /\ gh.del[s[t]] = 1
            /\ \A c \in ExpansionChildren(s[t]) :
                  /\ gh.push[c] = 1
                  /\ InFrontier(c) = 1 \/ gh.pop[c] = 1]_vars

\* A worker stands before its decrement for a state with two children, one
\* still in the frontier and one already popped by the other worker.
C14_Witness ==
    \E t \in Workers :
       /\ pc[t] = "run_dec"
       /\ \E c, d \in ExpansionChildren(s[t]) :
             c # d /\ InFrontier(c) = 1 /\ gh.pop[d] = 1

\* The workers between a successful GetState and their decrement.
InFlight ==
    {t \in Workers :
        \/ pc[t] = "run_while" /\ s[t] # NULL
        \/ pc[t] \in {"ps_classify", "ps_count", "ps_sol_lock", "ps_sol_push",
                      "ps_visit", "ps_next", "ps_put_lock", "ps_put_push",
                      "run_delete", "run_dec"}}

\* C15: activeWorkerCount is never negative; whenever statesMutex is free it
\* equals the number of workers between a successful GetState and their
\* decrement; it rises only by one, in the critical section of a pop that
\* succeeded; a GetState that finds the frontier empty returns NULL and
\* leaves frontier and counter as they are.
C15_CounterCountsHolders ==
    /\ [](/\ activeWorkerCount >= 0
          /\ statesMutex = <<>> => activeWorkerCount = Cardinality(InFlight))
    /\ [][activeWorkerCount' > activeWorkerCount =>
            /\ activeWorkerCount' = activeWorkerCount + 1
            /\ \E t \in Workers :
                  /\ statesMutex = <<t>> /\ statesMutex' = <<t>>
                  /\ pc[t] = "gs_inc" /\ res[t] # NULL
                  /\ gh.pop[res[t]] = 1 /\ InFrontier(res[t]) = 0]_vars
    /\ [][\A t \in Workers :
            /\ pc[t] = "gs_pop" /\ pc'[t] # "gs_pop" /\ globalStateStack = <<>> =>
                  /\ pc'[t] = "gs_unlock" /\ res'[t] = NULL
                  /\ UNCHANGED <<globalStateStack, activeWorkerCount>>
            /\ pc[t] = "gs_unlock" /\ pc'[t] # "gs_unlock" /\ res[t] = NULL =>
                  /\ s'[t] = NULL /\ statesMutex' = <<>>
                  /\ UNCHANGED <<globalStateStack, activeWorkerCount>>]_vars

\* statesMutex is free, two workers are between GetState and decrement and
\* the counter is 2.
C15_Witness ==
    /\ statesMutex = <<>>
    /\ activeWorkerCount = 2
    /\ Cardinality(InFlight) = 2

\* The calling thread is in StartPool, in the join loop or has returned.
CallerPastRoot == pc[Caller] \in {"start_pool", "join", "returned"}

\* C16: a worker exists only after ProcessState of the root has returned on
\* the calling thread; when the first worker is spawned the frontier holds
\* exactly the root's children; from StartPool on the calling thread holds
\* no lock, processes no state and its steps leave frontier, counters, log
\* and every state untouched.
C16_RootBeforeWorkers ==
    /\ [](Spawned # {} =>
            /\ CallerPastRoot
            /\ gh.done[Root] = 1
            /\ \A c \in ExpansionChildren(Root) : gh.push[c] = 1)
    /\ [](CallerPastRoot =>
            /\ statesMutex # <<Caller>> /\ solutionsMutex # <<Caller>>
            /\ s1[Caller] = NULL
            /\ \A n \in Children : gh.byCaller[n] = 0)
    /\ [][Spawned = {} /\ Spawned' # {} =>
            /\ {globalStateStack[i] : i \in DOMAIN globalStateStack}
                  = ExpansionChildren(Root)
            /\ Len(globalStateStack) = Cardinality(ExpansionChildren(Root))
            /\ \A t \in Spawned' : pc'[t] = "gs_lock"]_vars
    /\ [][CallerPastRoot /\ (idx' # idx \/ pc'[Caller] # pc[Caller]) =>
            UNCHANGED <<globalStateStack, activeWorkerCount, solCount,
                        solutions, statesMutex, solutionsMutex, gh, s, res,
                        s1>>]_vars

\* Both workers run, one of them inside GetState, while the calling thread
\* waits in the join loop and the root had two children.
C16_Witness ==
    /\ Spawned = {1, 2}
    /\ pc[Caller] = "join"
    /\ Cardinality(ExpansionChildren(Root)) >= 2
    /\ \E t \in Workers : pc[t] = "gs_pop" /\ globalStateStack # <<>>

\* Thread t is inside ProcessState on the goal branch / on the expansion
\* branch.
OnGoalBranch(t) ==
    pc[t] \in {"ps_count", "ps_sol_lock", "ps_sol_push", "ps_visit"}
OnExpandBranch(t) == pc[t] \in {"ps_next", "ps_put_lock", "ps_put_push"}

\* C17: ProcessState tests IsGoal first, then IsDead; a goal (dead or not)
\* takes the counting branch, raises solCount by one and gets no child; a
\* dead non-goal returns at once with counter, log and frontier unchanged;
\* any other state never touches counter or log and, when it has returned,
\* has allocated and pushed once each child of a feasible pair; every push
\* is the child of the feasible pair under the cursor.
C17_ThreeOutcomes ==
    /\ [](\A t \in Threads :
            /\ OnGoalBranch(t) => s[t] \in tree.goal
            /\ OnExpandBranch(t) => s[t] \notin tree.goal \cup tree.dead)
    /\ [](\A n \in Nodes(tree) :
            /\ n \in tree.goal \cup tree.dead =>
                  \A c \in FeasibleChildren(tree, n) :
                     gh.alloc[c] = 0 /\ gh.push[c] = 0
            /\ n \notin tree.goal \cup tree.dead /\ gh.done[n] = 1 =>
                  \A c \in FeasibleChildren(tree, n) :
                     gh.alloc[c] = 1 /\ gh.push[c] = 1)
    /\ [][\A t \in Threads :
            pc[t] = "ps_classify" /\ pc'[t] # "ps_classify" =>
               /\ s[t] \in tree.goal => pc'[t] = "ps_count"
               /\ s[t] \in tree.dead \ tree.goal =>
                     /\ pc'[t] = AfterProcessState(t) /\ ret'[t] = FALSE
                     /\ gh'.done[s[t]] = gh.done[s[t]] + 1
               /\ s[t] \notin tree.goal \cup tree.dead => pc'[t] = "ps_next"
               /\ UNCHANGED <<solCount, solutions, globalStateStack>>]_vars
    /\ [][\A t \in Threads :
            pc[t] = "ps_count" /\ pc'[t] # "ps_count" =>
               solCount' = solCount + 1 /\ UNCHANGED globalStateStack]_vars
    /\ [][solCount' # solCount \/ solutions' # solutions =>
            \E t \in Threads :
               OnGoalBranch(t) /\ pc'[t] # pc[t] /\ s[t] \in tree.goal]_vars
    /\ [][Len(globalStateStack') > Len(globalStateStack) =>
            \E t \in Threads :
               /\ pc[t] = "ps_put_push" /\ pc'[t] = "ps_next"
               /\ s[t] \notin tree.goal \cup tree.dead
               /\ cursor[t] \in DOMAIN tree.pairs[s[t]]
               /\ IsFeasiblePair(s[t], cursor[t])
               /\ s1[t] = NewChild(s[t], cursor[t])
               /\ globalStateStack' = Append(globalStateStack, s1[t])]_vars

\* The call returned on the tree with a dead goal: the dead goal 4 was
\* counted, the dead state 3 got no child, state 2 got both of its children.
C17_Witness ==
    /\ Returned
    /\ tree.goal = {4} /\ 4 \in tree.dead
    /\ solCount = 1
    /\ gh.done[3] = 1 /\ gh.alloc[6] = 0
    /\ gh.done[2] = 1 /\ gh.push[4] = 1 /\ gh.push[5] = 1
    /\ gh.done[4] = 1 /\ gh.done[5] = 1

\* C18: gh.order lists exactly the states in the frontier; the frontier
\* changes only under statesMutex; each push goes to the end of the order
\* and each successful pop removes and returns the last state of the order,
\* the one pushed most recently among those in the frontier.
C18_PopsMostRecentPush ==
    /\ [](/\ Len(gh.order) = Len(globalStateStack)
          /\ \A n \in Nodes(tree) :
                InFrontier(n) =
                   Cardinality({i \in DOMAIN gh.order : gh.order[i] = n}))
    /\ [][globalStateStack' # globalStateStack =>
            \E t \in Threads :
               /\ statesMutex = <<t>>
               /\ \/ /\ pc[t] = "ps_put_push"
                     /\ gh'.order = Append(gh.order, s1[t])
                     /\ globalStateStack' = Append(globalStateStack, s1[t])
                     /\ InFrontier(s1[t]) = 0
                  \/ /\ pc[t] = "gs_pop" /\ pc'[t] = "gs_inc"
                     /\ gh.order # <<>>
                     /\ res'[t] = gh.order[Len(gh.order)]
                     /\ gh'.order = SubSeq(gh.order, 1, Len(gh.order) - 1)
                     /\ \A i \in DOMAIN globalStateStack' :
                           globalStateStack'[i] # res'[t]]_vars

\* Pushes by different threads are in the frontier together: state 2,
\* pushed by the calling thread, lies below state 4, pushed later by the
\* worker that expanded state 3; a worker's pop has just returned 4.
C18_Witness ==
    /\ Len(tree.pairs) >= 4
    /\ 4 \in FeasibleChildren(tree, 3) /\ 2 \in FeasibleChildren(tree, Root)
    /\ globalStateStack = <<2>>
    /\ gh.push[4] = 1
    /\ \E t \in Workers : pc[t] = "gs_inc" /\ res[t] = 4

\* The threads that have counted a goal and not yet appended its snapshot.
AppendPending == {t \in Threads : pc[t] \in {"ps_sol_lock", "ps_sol_push"}}

\* C19: with storeSolutions set, the log is never longer than solCount and
\* solCount exceeds its length by the number of threads that have counted
\* a goal and not yet appended its snapshot; the log changes only by an
\* append made by the thread that holds solutionsMutex.
C19_LogLagsCount ==
    /\ [](storeSolutions =>
            /\ Len(solutions) <= solCount
            /\ solCount - Len(solutions) = Cardinality(AppendPending)
            /\ \A t \in AppendPending : s[t] \in tree.goal)
    /\ [][solutions' # solutions =>
            \E t \in Threads :
               /\ solutionsMutex = <<t>>
               /\ pc[t] = "ps_sol_push"
               /\ solutions' = Append(solutions, GetCoreSet(s[t]))]_vars

\* Two goals are counted and neither snapshot is in the log yet: one worker
\* holds solutionsMutex, the other waits for it.
C19_Witness ==
    /\ storeSolutions
    /\ solCount = 2 /\ solutions = <<>>
    /\ \E t, u \in Workers :
          /\ pc[t] = "ps_sol_push" /\ solutionsMutex = <<t>>
          /\ pc[u] = "ps_sol_lock"

\* C20: no thread holds statesMutex and solutionsMutex together; the holder
\* of statesMutex is inside PutState or GetState and the holder of
\* solutionsMutex is at the append, so a holder never waits for a lock and
\* its next step is enabled; a thread that evaluates IsGoal or IsDead, runs
\* the visitor, or evaluates NextPair and IsFeasiblePair and copies the
\* state holds neither lock.
C20_LocksNeverNested ==
    /\ statesMutex \in {<<>>} \cup {<<t>> : t \in Threads}
    /\ solutionsMutex \in {<<>>} \cup {<<t>> : t \in Threads}
    /\ \A t \in Threads :
          /\ ~(statesMutex = <<t>> /\ solutionsMutex = <<t>>)
          /\ statesMutex = <<t>> =>
                pc[t] \in {"ps_put_push", "gs_pop", "gs_inc", "gs_unlock"}
          /\ solutionsMutex = <<t>> => pc[t] = "ps_sol_push"
          /\ pc[t] \in {"ps_classify", "ps_count", "ps_visit", "ps_next",
                        "run_while", "run_delete", "run_dec"} =>
                statesMutex # <<t>> /\ solutionsMutex # <<t>>
          /\ statesMutex = <<t>> \/ solutionsMutex = <<t>> =>
                ENABLED ThreadStep(t)

\* Both locks are held at once, by different workers: one appends to the
\* log while the other is inside GetState.
C20_Witness ==
    \E t, u \in Workers :
       /\ t # u
       /\ solutionsMutex = <<t>> /\ pc[t] = "ps_sol_push"
       /\ statesMutex = <<u>> /\ pc[u] = "gs_pop"

====
